---- MODULE Spec2Model ----
(***************************************************************************)
(* Model of src/index.ts of document-evaluator: a markdown document is     *)
(* fetched from GitHub or Bitbucket, scored against the hardcoded rubric   *)
(* projectOverviewType and a report is written.                            *)
(*                                                                         *)
(* Text representation.  A word is a record [text, case, punct]: `text' is *)
(* the word's letters in lower case, `case' says how the document spells   *)
(* them ("lower", "upper" or "title") and `punct' whether a "." or "," is  *)
(* attached.                                                               *)
(* A document is a sequence of items, each standing for a run of           *)
(* whitespace-separated words:                                             *)
(*   [kind |-> "w", word |-> w, n |-> k]      the word w written k times   *)
(*   [kind |-> "hdr", numbered |-> b, title |-> ws]                        *)
(*        the heading "## 1. <ws>" (numbered) or "## <ws>" (not numbered)  *)
(* Scores are fixed-point numbers: the value times Scale.                  *)
(***************************************************************************)
EXTENDS Integers, Sequences, FiniteSets, TLC

VARIABLES
    pc,        \* position of evaluateDocumentFromSource: "start", "fetching", "done"
               \* (and "evaluate", "evaluated" around a call of evaluateDocument alone)
    source,    \* process.env.SOURCE
    username,  \* process.env.BITBUCKET_USERNAME ("" when unset)
    fetches,   \* number of HTTP GETs issued
    content,   \* <<doc>> once the fetch has returned, <<>> before
    result,    \* <<EvaluationResult>> once evaluateDocument has run, <<>> before
    file,      \* <<report>> once evaluation_report.txt is written, <<>> before
    console,   \* what console.log / console.error printed, in order
    promise    \* state of the promise returned by evaluateDocumentFromSource

vars == <<pc, source, username, fetches, content, result, file, console, promise>>

\* ------------------------------------------------------------------ bounds

\* longest document of the exhaustively enumerated family, in items
MaxItems == 3
\* most sections of a rubric-shaped document that differ from the profile the
\* other sections share
MaxDeviate == 1

\* ------------------------------------------------------------------ rubric

Scale == 2 * 3 * 7 * 10

Section(name, words, keywords, min) ==
    [name |-> name, nameWords |-> words, requiredKeywords |-> keywords,
     minWordCount |-> min]

projectOverviewType ==
    [name |-> "Project Overview",
     sections |-> <<
        Section("Introduction", <<"introduction">>,
                <<"purpose", "scope", "objectives">>, 100),
        Section("Key Features", <<"key", "features">>,
                <<"functionality", "benefits", "unique">>, 150),
        Section("Target User", <<"target", "user">>,
                <<"audience", "user", "demographic">>, 75),
        Section("User Access Levels", <<"user", "access", "levels">>,
                <<"roles", "permissions", "admin">>, 100),
        Section("Purpose", <<"purpose">>,
                <<"goal", "aim", "objective">>, 75),
        Section("Technology Stack", <<"technology", "stack">>,
                <<"frontend", "backend", "database">>, 100),
        Section("Conclusion", <<"conclusion">>,
                <<"summary", "future", "next steps">>, 75) >>,
     overallMinWordCount |-> 500]

\* -------------------------------------------------------------------- text

Word(text, case, punct) == [text |-> text, case |-> case, punct |-> punct]
Plain(text) == Word(text, "lower", FALSE)

\* String.prototype.toLowerCase on one word
toLowerCase(w) == [w EXCEPT !.case = "lower"]

\* words that consist of digits only
DigitTexts == {"1"}

\* the part of keyword-extractor's English stop word list the documents use
Stopwords == {"the", "next"}

\* pairs <<p, t>> of texts where p is a proper prefix of t
ProperPrefix == {<<"user", "users">>}

StartsWith(text, prefix) == text = prefix \/ <<prefix, text>> \in ProperPrefix

\* the whitespace-separated words of a heading: "##", "1." and the title
HeaderWords(h) ==
    (IF h.numbered THEN <<Plain("##"), Word("1", "lower", TRUE)>> ELSE <<Plain("##")>>)
        \o h.title

\* the distinct words an item writes, and how many words it writes
ItemWords(it) == IF it.kind = "hdr" THEN HeaderWords(it) ELSE <<it.word>>
ItemCount(it) == IF it.kind = "hdr" THEN Len(HeaderWords(it)) ELSE it.n

\* text.split(/\s+/).filter((word) => word.length > 0).length
RECURSIVE WordCount(_)
WordCount(text) ==
    IF text = <<>> THEN 0 ELSE ItemCount(Head(text)) + WordCount(Tail(text))

Min(S) == CHOOSE x \in S : \A y \in S : x <= y

Range(f) == {f[i] : i \in DOMAIN f}

\* every distinct word written somewhere in text
AllWords(text) == UNION {Range(ItemWords(text[i])) : i \in DOMAIN text}

\* keyword-extractor removes ".", "," and the like from a word
StripPunct(w) == [w EXCEPT !.punct = FALSE]

\* keyword_extractor.extract(text, {language: "english", remove_digits: true,
\* return_changed_case: true, remove_duplicates: true}): the text is split at
\* whitespace, each word loses its punctuation, words of digits and stop words
\* are dropped, what is left is returned in lower case, each word once.
extractKeywords(text) ==
    {toLowerCase(StripPunct(w)) :
        w \in {v \in AllWords(text) : v.text \notin DigitTexts /\ v.text \notin Stopwords}}

\* ------------------------------------------------------------ evaluateSection

\* new RegExp(`## \\d+\\.\\s+${section.name}`, "i") matches the heading h: the
\* heading is numbered, its title starts with the section's name, any case; the
\* name's last word may go on ("Target Users").
HeaderMatches(h, section) ==
    LET name == section.nameWords
        k == Len(name)
    IN  /\ h.kind = "hdr"
        /\ h.numbered
        /\ Len(h.title) >= k
        /\ \A j \in 1..(k - 1) : h.title[j].text = name[j] /\ ~h.title[j].punct
        /\ StartsWith(h.title[k].text, name[k])

\* content.match(sectionRegex): the index of the first match, 0 for null
SectionMatch(text, section) ==
    LET hits == {i \in DOMAIN text : HeaderMatches(text[i], section)}
    IN  IF hits = {} THEN 0 ELSE Min(hits)

\* rest.match(/## \d+\.\s+/) on the text after the matched heading: the index in
\* sectionContent of the next numbered heading, 0 for null
NextSectionMatch(sectionContent) ==
    LET hits == {j \in 2..Len(sectionContent) :
                    sectionContent[j].kind = "hdr" /\ sectionContent[j].numbered}
    IN  IF hits = {} THEN 0 ELSE Min(hits)

\* SectionText with the search for the next heading left out: the section runs
\* to the end of the document
SectionTextToEnd(text, section) ==
    SubSeq(text, SectionMatch(text, section), Len(text))

\* the slice of content that evaluateSection scores (lines 146-152)
SectionText(text, section) ==
    LET sectionContent == SubSeq(text, SectionMatch(text, section), Len(text))
        next == NextSectionMatch(sectionContent)
    IN  IF next = 0 THEN sectionContent ELSE SubSeq(sectionContent, 1, next - 1)

\* requiredKeywords.filter((keyword) => !keywordsFound.includes(keyword.toLowerCase()))
MissingKeywords(section, keywordsFound) ==
    SelectSeq(section.requiredKeywords,
              LAMBDA keyword : toLowerCase(Plain(keyword)) \notin keywordsFound)

\* SectionScore with the word count compared by > instead of >=
SectionScoreStrict(section, words, missingKeywords) ==
    (IF words > section.minWordCount THEN Scale \div 2 ELSE 0)
    + (Scale - (Len(missingKeywords) * Scale) \div Len(section.requiredKeywords)) \div 2

\* score of a present section (lines 160-172)
SectionScore(section, words, missingKeywords) ==
    (IF words >= section.minWordCount THEN Scale \div 2 ELSE 0)
    + (Scale - (Len(missingKeywords) * Scale) \div Len(section.requiredKeywords)) \div 2

\* evaluateSection without the early return for a missing header: the keywords
\* of an absent section are looked for in the whole document
evaluateSectionScanningAll(text, section) ==
    IF SectionMatch(text, section) = 0
    THEN LET missingKeywords == MissingKeywords(section, extractKeywords(text))
         IN  [score |-> 0,
              feedback |-> [present |-> FALSE, words |-> 0, missing |-> missingKeywords],
              missingKeywords |-> missingKeywords]
    ELSE LET sectionText == SectionText(text, section)
             words == WordCount(sectionText)
             missingKeywords == MissingKeywords(section, extractKeywords(sectionText))
         IN  [score |-> SectionScore(section, words, missingKeywords),
              feedback |-> [present |-> TRUE, words |-> words, missing |-> missingKeywords],
              missingKeywords |-> missingKeywords]

evaluateSection(text, section) ==
    IF SectionMatch(text, section) = 0
    THEN [score |-> 0,
          feedback |-> [present |-> FALSE, words |-> 0, missing |-> section.requiredKeywords],
          missingKeywords |-> section.requiredKeywords]
    ELSE LET sectionText == SectionText(text, section)
             words == WordCount(sectionText)
             missingKeywords == MissingKeywords(section, extractKeywords(sectionText))
         IN  [score |-> SectionScore(section, words, missingKeywords),
              feedback |-> [present |-> TRUE, words |-> words, missing |-> missingKeywords],
              missingKeywords |-> missingKeywords]

\* ----------------------------------------------------------- evaluateDocument

RECURSIVE SumScores(_)
SumScores(evals) ==
    IF evals = <<>> THEN 0 ELSE Head(evals).score + SumScores(Tail(evals))

\* OverallScore without the bonus for the document's word count
OverallScoreNoBonus(evals, words, documentType) ==
    SumScores(evals) \div Len(documentType.sections)

\* OverallScore with the document's word count compared by > instead of >=
OverallScoreStrict(evals, words, documentType) ==
    SumScores(evals) \div Len(documentType.sections)
    + (IF words > documentType.overallMinWordCount THEN Scale \div 10 ELSE 0)

\* overallScore before the cap: the mean of the section scores plus the bonus
OverallScore(evals, words, documentType) ==
    SumScores(evals) \div Len(documentType.sections)
    + (IF words >= documentType.overallMinWordCount THEN Scale \div 10 ELSE 0)

\* CapPercent without Math.min
CapPercentUncapped(overallScore) == overallScore * 100

\* Math.min(overallScore, 1) * 100
CapPercent(overallScore) ==
    (IF overallScore <= Scale THEN overallScore ELSE Scale) * 100

evaluateDocument(text, documentType) ==
    LET sections == documentType.sections
        words == WordCount(text)
        evals == [i \in DOMAIN sections |-> evaluateSection(text, sections[i])]
        index(name) == CHOOSE i \in DOMAIN sections : sections[i].name = name
        names == {sections[i].name : i \in DOMAIN sections}
    IN  [documentType |-> documentType.name,
         overallScore |-> CapPercent(OverallScore(evals, words, documentType)),
         sectionScores |-> [name \in names |-> evals[index(name)].score],
         feedback |-> [i \in DOMAIN sections |-> evals[i].feedback]
                        \o <<[overall |-> words >= documentType.overallMinWordCount,
                              words |-> words]>>,
         missingKeywords |->
            [name \in {n \in names : Len(evals[index(n)].missingKeywords) > 0}
                |-> evals[index(name)].missingKeywords],
         wordCount |-> words]

\* ------------------------------------------------------------- generateReport

\* (x).toFixed(2) of a fixed-point number: hundredths, rounded to nearest
toFixed2(x) == (x * 100 + Scale \div 2) \div Scale

generateReport(res) ==
    [documentType |-> res.documentType,
     overallScore |-> toFixed2(res.overallScore),
     wordCount |-> res.wordCount,
     sectionScores |-> [name \in DOMAIN res.sectionScores
                            |-> toFixed2(res.sectionScores[name] * 100)],
     feedback |-> res.feedback,
     missingKeywords |-> res.missingKeywords]

\* ------------------------------------------------------------------ documents
\* The files the remote host may return.

Hdr(numbered, title) == [kind |-> "hdr", numbered |-> numbered, title |-> title]
Run(word, n) == [kind |-> "w", word |-> word, n |-> n]

Titled(texts) == [j \in DOMAIN texts |-> Word(texts[j], "title", FALSE)]
Lorem(n) == Run(Plain("lorem"), n)
Appendix == Hdr(TRUE, Titled(<<"appendix">>))

\* keyword.split(" "): the words of a required keyword
KeywordWords(keyword) == IF keyword = "next steps" THEN <<"next", "steps">> ELSE <<keyword>>

RECURSIVE Flatten(_)
Flatten(seqs) == IF seqs = <<>> THEN <<>> ELSE Head(seqs) \o Flatten(Tail(seqs))

\* every required keyword of the section written once, in the given spelling
KeywordRuns(section, case, punct) ==
    LET texts == Flatten([j \in DOMAIN section.requiredKeywords
                            |-> KeywordWords(section.requiredKeywords[j])])
    IN  [j \in DOMAIN texts |-> Run(Word(texts[j], case, punct), 1)]

\* items padded with filler words to exactly n words (unchanged if already longer)
PadTo(items, n) ==
    IF WordCount(items) >= n THEN items ELSE items \o <<Lorem(n - WordCount(items))>>

Profiles == {"absent", "exact", "short", "bare", "upper", "stub"}

\* one section of a rubric-shaped document
SectionItems(section, profile) ==
    LET hdr == <<Hdr(TRUE, Titled(section.nameWords))>>
    IN  CASE profile = "absent" -> <<>>
          [] profile = "exact"  ->
                PadTo(hdr \o KeywordRuns(section, "lower", FALSE), section.minWordCount)
          [] profile = "short"  ->
                PadTo(hdr \o KeywordRuns(section, "lower", FALSE), section.minWordCount - 1)
          [] profile = "bare"   -> PadTo(hdr, section.minWordCount)
          [] profile = "upper"  ->
                PadTo(hdr \o KeywordRuns(section, "upper", TRUE), section.minWordCount)
          [] profile = "stub"   -> hdr

AllKeywordRuns ==
    Flatten([i \in DOMAIN projectOverviewType.sections
                |-> KeywordRuns(projectOverviewType.sections[i], "lower", FALSE)])

\* what surrounds the sections of a rubric-shaped document
Wraps ==
    { [pre |-> <<>>, post |-> <<>>],
      [pre |-> <<Lorem(projectOverviewType.overallMinWordCount)>>, post |-> <<>>],
      [pre |-> AllKeywordRuns, post |-> <<Appendix>> \o AllKeywordRuns] }

\* the profiles of the sections: all but at most MaxDeviate share one profile
ProfileVectors ==
    LET idx == DOMAIN projectOverviewType.sections
    IN  UNION { { [i \in idx |-> IF i \in D THEN a[i] ELSE base] : a \in [D -> Profiles] } :
                <<D, base>> \in {D \in SUBSET idx : Cardinality(D) <= MaxDeviate}
                                    \X {"exact", "absent", "bare"} }

RubricDocsIn(wraps) ==
    { w.pre
        \o Flatten([i \in DOMAIN projectOverviewType.sections
                        |-> SectionItems(projectOverviewType.sections[i], v[i])])
        \o w.post : <<w, v>> \in wraps \X ProfileVectors }

RubricDocs == RubricDocsIn(Wraps)

SmallItems ==
    { Hdr(TRUE, Titled(<<"introduction">>)),
      Hdr(TRUE, <<Plain("introduction")>>),
      Hdr(FALSE, Titled(<<"introduction">>)),
      Hdr(TRUE, Titled(<<"target", "users">>)),
      Appendix,
      Run(Plain("purpose"), 1),
      Run(Word("purpose", "upper", TRUE), 1),
      Run(Plain("purposes"), 1),
      Run(Plain("scope"), 1),
      Run(Plain("objectives"), 1),
      Run(Plain("user"), 1),
      Run(Plain("the"), 1),
      Lorem(100) }

SmallDocs == UNION { [1..n -> SmallItems] : n \in 0..MaxItems }

Documents == SmallDocs \cup RubricDocs

\* the files the whole run is followed for: the rubric-shaped ones with nothing
\* around the sections
FetchedFiles == RubricDocsIn({[pre |-> <<>>, post |-> <<>>]})

\* ------------------------------------------------------------------- the run

Sources == {"github", "bitbucket", "gitlab"}
Usernames == {"", "alice"}
FetchFailures == {"network", "auth", "missing-file"}

Error(kind, detail) == [stream |-> "error", kind |-> kind, detail |-> detail]
Log(what) == [stream |-> "log", kind |-> what, detail |-> ""]

\* line 312: the script calls evaluateDocumentFromSource with the environment's values
Init ==
    /\ pc = "start"
    /\ source \in Sources
    /\ username \in Usernames
    /\ fetches = 0
    /\ content = <<>>
    /\ result = <<>>
    /\ file = <<>>
    /\ console = <<>>
    /\ promise = "pending"

\* Catch that logs the error and throws it again: the promise rejects
CatchRethrowing(kind, detail) ==
    /\ console' = Append(console, Error(kind, detail))
    /\ promise' = "rejected"
    /\ pc' = "done"

\* the catch block (lines 292-298): the error is logged and the function returns
Catch(kind, detail) ==
    /\ console' = Append(console, Error(kind, detail))
    /\ promise' = "resolved"
    /\ pc' = "done"

\* Start without the check of the username: Bitbucket is asked in any case
StartWithoutUsernameCheck ==
    /\ pc = "start"
    /\ IF source = "github" \/ source = "bitbucket"
       THEN /\ fetches' = fetches + 1
            /\ pc' = "fetching"
            /\ UNCHANGED <<console, promise>>
       ELSE /\ console' = Append(console, Error("unsupported", ""))
            /\ promise' = "resolved"
            /\ pc' = "done"
            /\ UNCHANGED fetches
    /\ UNCHANGED <<source, username, content, result, file>>

\* lines 262-283, up to the await: the switch on source
Start ==
    /\ pc = "start"
    /\ IF source = "github" \/ (source = "bitbucket" /\ username # "")
       THEN /\ fetches' = fetches + 1
            /\ pc' = "fetching"
            /\ UNCHANGED <<console, promise>>
       ELSE /\ Catch(IF source = "bitbucket" THEN "username" ELSE "unsupported", "")
            /\ UNCHANGED fetches
    /\ UNCHANGED <<source, username, content, result, file>>

\* axios.get rejects: readFileFromGitHub / readFileFromBitbucket rethrow (lines
\* 87-93, 114-120) and the catch block runs
FetchFail ==
    /\ pc = "fetching"
    /\ \E cause \in FetchFailures : Catch("fetch", cause)
    /\ UNCHANGED <<source, username, fetches, content, result, file>>

\* axios.get resolves with the file: lines 285-291, where writeFileSync may throw
FetchOk ==
    /\ pc = "fetching"
    /\ \E doc \in FetchedFiles, written \in BOOLEAN :
        LET res == evaluateDocument(doc, projectOverviewType)
            report == generateReport(res)
        IN  /\ content' = <<doc>>
            /\ result' = <<res>>
            /\ IF written
               THEN /\ file' = <<report>>
                    /\ console' = console \o <<Log("generated"), Log("report")>>
                    /\ promise' = "resolved"
                    /\ pc' = "done"
               ELSE /\ Catch("write", "")
                    /\ UNCHANGED file
    /\ UNCHANGED <<source, username, fetches>>

Next == Start \/ FetchFail \/ FetchOk

Spec == Init /\ [][Next]_vars

\* ------------------------------------------------- evaluateDocument on its own
\* The call of line 285 for every document of Documents: the fetch has returned
\* the document, evaluateDocument is about to be applied to it.

InitEvaluate ==
    /\ pc = "evaluate"
    /\ source = "github"
    /\ username = ""
    /\ fetches = 1
    /\ content \in {<<doc>> : doc \in Documents}
    /\ result = <<>>
    /\ file = <<>>
    /\ console = <<>>
    /\ promise = "pending"

Evaluate ==
    /\ pc = "evaluate"
    /\ result' = <<evaluateDocument(content[1], projectOverviewType)>>
    /\ pc' = "evaluated"
    /\ UNCHANGED <<source, username, fetches, content, file, console, promise>>

NextEvaluate == Evaluate

SpecEvaluate == InitEvaluate /\ [][NextEvaluate]_vars

\* ---------------------------------------------------------------- properties
\* Notions the properties are stated in, defined without the program's operators
\* for slicing, keyword extraction and scoring.

Sections == projectOverviewType.sections
Evaluated == result # <<>>
Doc == content[1]
Res == result[1]

IsNumberedHeading(it) == it.kind = "hdr" /\ it.numbered

\* the section's header pattern matches somewhere in text
HasHeader(text, section) == \E i \in DOMAIN text : HeaderMatches(text[i], section)

\* the text from the first match of the section's header up to, not including,
\* the next numbered heading (or to the end)
BodyStart(text, section) ==
    CHOOSE i \in DOMAIN text :
        /\ HeaderMatches(text[i], section)
        /\ \A j \in 1..(i - 1) : ~HeaderMatches(text[j], section)

BodyEnd(text, section) ==
    LET start == BodyStart(text, section)
    IN  CHOOSE e \in start..Len(text) :
            /\ \A j \in (start + 1)..e : ~IsNumberedHeading(text[j])
            /\ e = Len(text) \/ IsNumberedHeading(text[e + 1])

Body(text, section) == SubSeq(text, BodyStart(text, section), BodyEnd(text, section))

\* the words of text in order, each run written once
Spelled(text) == Flatten([i \in DOMAIN text |-> ItemWords(text[i])])

\* the keyword occurs in text: its words follow one another there, in any case,
\* with or without punctuation attached
Occurs(text, keyword) ==
    LET kw == KeywordWords(keyword)
        ws == Spelled(text)
    IN  \E p \in 1..(Len(ws) - Len(kw) + 1) :
            \A j \in DOMAIN kw : ws[p + j - 1].text = kw[j]

AllOccur(text, section) ==
    \A j \in DOMAIN section.requiredKeywords : Occurs(text, section.requiredKeywords[j])

\* the required keywords of the section that text holds as a word of its own
FoundKeywords(text, section) ==
    {j \in DOMAIN section.requiredKeywords :
        \E w \in AllWords(text) : w.text = section.requiredKeywords[j]}

Recorded(i) == IF Sections[i].name \in DOMAIN Res.missingKeywords
               THEN Res.missingKeywords[Sections[i].name] ELSE <<>>

\* C1: a section that is present with exactly its minimum word count and in
\* whose text every required keyword occurs scores 1.0 with no missing keyword.
C1_ExactSectionScoresOne ==
    Evaluated =>
        \A i \in DOMAIN Sections :
            ( /\ HasHeader(Doc, Sections[i])
              /\ WordCount(Body(Doc, Sections[i])) = Sections[i].minWordCount
              /\ AllOccur(Body(Doc, Sections[i]), Sections[i]) )
            => /\ Res.sectionScores[Sections[i].name] = Scale
               /\ Res.feedback[i].missing = <<>>
               /\ Recorded(i) = <<>>

\* C1, for the sections all of whose required keywords are single words: the
\* statement of C1 holds for them.
C1_SingleWordSections ==
    Evaluated =>
        \A i \in DOMAIN Sections :
            ( /\ \A j \in DOMAIN Sections[i].requiredKeywords :
                    Len(KeywordWords(Sections[i].requiredKeywords[j])) = 1
              /\ HasHeader(Doc, Sections[i])
              /\ WordCount(Body(Doc, Sections[i])) = Sections[i].minWordCount
              /\ AllOccur(Body(Doc, Sections[i]), Sections[i]) )
            => /\ Res.sectionScores[Sections[i].name] = Scale
               /\ Res.feedback[i].missing = <<>>

\* C2: a section whose header pattern matches nowhere in the document scores 0
\* and has all its required keywords missing, wherever else they occur; the
\* result records score 0 and lists all the keywords under the section's name.
C2_AbsentSectionScoresZero ==
    Evaluated =>
        \A i \in DOMAIN Sections :
            ~HasHeader(Doc, Sections[i])
            => /\ Res.sectionScores[Sections[i].name] = 0
               /\ Res.feedback[i].present = FALSE
               /\ Res.feedback[i].missing = Sections[i].requiredKeywords
               /\ Sections[i].name \in DOMAIN Res.missingKeywords
               /\ Res.missingKeywords[Sections[i].name] = Sections[i].requiredKeywords

\* witness of C2: an absent section all of whose keywords occur in the document
C2_Witness ==
    /\ Evaluated
    /\ \E i \in DOMAIN Sections :
        /\ ~HasHeader(Doc, Sections[i])
        /\ AllOccur(Doc, Sections[i])
        /\ Res.sectionScores[Sections[i].name] = 0

\* the sum of the section scores the result records
RECURSIVE SumOver(_, _)
SumOver(f, S) ==
    IF S = {} THEN 0
    ELSE LET x == CHOOSE y \in S : TRUE IN f[x] + SumOver(f, S \ {x})

RecordedMean == SumOver(Res.sectionScores, DOMAIN Res.sectionScores) \div Len(Sections)

Bonus == IF WordCount(Doc) >= projectOverviewType.overallMinWordCount
         THEN Scale \div 10 ELSE 0

\* C3: the overall score is at least 0 and at most 100.
C3_OverallScoreInRange ==
    Evaluated => Res.overallScore >= 0 /\ Res.overallScore <= 100 * Scale

\* witness of C3: the mean of the section scores plus the bonus exceeds 1
C3_Witness ==
    /\ Evaluated
    /\ RecordedMean + Bonus > Scale
    /\ Res.overallScore = 100 * Scale

MeetsEverything ==
    /\ \A i \in DOMAIN Sections :
        /\ HasHeader(Doc, Sections[i])
        /\ WordCount(Body(Doc, Sections[i])) >= Sections[i].minWordCount
        /\ AllOccur(Body(Doc, Sections[i]), Sections[i])
    /\ WordCount(Doc) >= projectOverviewType.overallMinWordCount

\* C4: a document in which every section is present, meets its minimum word
\* count and holds all its required keywords, and which meets the overall
\* minimum word count, has overall score exactly 100.
C4_CompleteDocumentScores100 ==
    (Evaluated /\ MeetsEverything) => Res.overallScore = 100 * Scale

\* witness of C4: such a document has been evaluated
C4_Witness ==
    Evaluated /\ MeetsEverything /\ Res.overallScore = 100 * Scale

\* C7: a required keyword of a present section counts as found whenever it
\* occurs in the section's text, in whatever mix of upper and lower case.
C7_FoundWheneverItOccurs ==
    Evaluated =>
        \A i \in DOMAIN Sections :
            HasHeader(Doc, Sections[i])
            => \A j \in DOMAIN Sections[i].requiredKeywords :
                Occurs(Body(Doc, Sections[i]), Sections[i].requiredKeywords[j])
                => \A m \in DOMAIN Res.feedback[i].missing :
                    Res.feedback[i].missing[m] # Sections[i].requiredKeywords[j]

\* the document with every word of it put in the given case
Recase(text, case) ==
    [i \in DOMAIN text |->
        IF text[i].kind = "hdr"
        THEN [text[i] EXCEPT !.title = [j \in DOMAIN @ |-> [@[j] EXCEPT !.case = case]]]
        ELSE [text[i] EXCEPT !.word.case = case]]

\* C7, its consequence: documents that differ only in the case of their letters
\* get the same section scores and the same missing keywords.
C7_CaseInvariant ==
    Evaluated =>
        \A case \in {"lower", "upper", "title"} :
            LET other == evaluateDocument(Recase(Doc, case), projectOverviewType)
            IN  /\ other.sectionScores = Res.sectionScores
                /\ other.missingKeywords = Res.missingKeywords

\* C8: the score of a present section is 0.5 if its text has at least the
\* minimum number of words, plus 0.5 times the share of its required keywords
\* found in its text; it is 0 with too few words and no keyword, and in [0, 1].
C8_SectionScoreFormula ==
    Evaluated =>
        \A i \in DOMAIN Sections :
            HasHeader(Doc, Sections[i])
            => LET body == Body(Doc, Sections[i])
                   enough == WordCount(body) >= Sections[i].minWordCount
                   found == Cardinality(FoundKeywords(body, Sections[i]))
                   score == Res.sectionScores[Sections[i].name]
               IN  /\ score * 2 * Len(Sections[i].requiredKeywords)
                        = (IF enough THEN Scale * Len(Sections[i].requiredKeywords) ELSE 0)
                          + Scale * found
                   /\ (~enough /\ found = 0) => score = 0
                   /\ score >= 0 /\ score <= Scale

\* witness of C8: a present section with enough words and some, not all, of its
\* keywords, and a present section with too few words and none of them
C8_Witness ==
    /\ Evaluated
    /\ \E i \in DOMAIN Sections :
        /\ HasHeader(Doc, Sections[i])
        /\ WordCount(Body(Doc, Sections[i])) >= Sections[i].minWordCount
        /\ Cardinality(FoundKeywords(Body(Doc, Sections[i]), Sections[i])) = 2
    /\ \E i \in DOMAIN Sections :
        /\ HasHeader(Doc, Sections[i])
        /\ WordCount(Body(Doc, Sections[i])) < Sections[i].minWordCount
        /\ FoundKeywords(Body(Doc, Sections[i]), Sections[i]) = {}
        /\ Res.sectionScores[Sections[i].name] = 0

\* C9: the overall score is 100 * min(1, mean of the section scores + b), b
\* being 0.1 when the document has at least overallMinWordCount words, else 0.
C9_OverallScoreFormula ==
    Evaluated =>
        Res.overallScore =
            100 * (IF RecordedMean + Bonus < Scale THEN RecordedMean + Bonus ELSE Scale)

\* witness of C9: no section is present and the document has exactly
\* overallMinWordCount words, so the score is the bonus alone
C9_Witness ==
    /\ Evaluated
    /\ \A i \in DOMAIN Sections : ~HasHeader(Doc, Sections[i])
    /\ WordCount(Doc) = projectOverviewType.overallMinWordCount
    /\ Res.overallScore = 100 * (Scale \div 10)

\* texts without headings: nothing, or every keyword of the rubric and enough
\* filler to meet any section's minimum
OtherTexts == { <<>>, AllKeywordRuns \o <<Lorem(150)>> }

\* the document with the words before the section's header replaced by pre and
\* the words after the heading that ends the section replaced by post
Reframed(text, section, pre, post) ==
    LET e == BodyEnd(text, section)
    IN  pre \o Body(text, section)
            \o (IF e = Len(text) THEN <<>> ELSE <<text[e + 1]>> \o post)

\* C10: the text scored for a present section runs from the first match of its
\* header to the next numbered heading (or the end); what is written before the
\* header or after that heading changes neither the section's word count nor
\* its missing keywords nor its score.
C10_OnlySectionTextCounts ==
    Evaluated =>
        \A i \in DOMAIN Sections :
            HasHeader(Doc, Sections[i])
            => LET body == Body(Doc, Sections[i])
                   found == FoundKeywords(body, Sections[i])
                   missing == Res.feedback[i].missing
               IN  /\ Res.feedback[i].words = WordCount(body)
                   /\ \A j \in DOMAIN Sections[i].requiredKeywords :
                        (j \in found)
                        <=> (\A m \in DOMAIN missing :
                                missing[m] # Sections[i].requiredKeywords[j])
                   /\ \A pre \in OtherTexts, post \in OtherTexts :
                        LET other == evaluateSection(
                                        Reframed(Doc, Sections[i], pre, post), Sections[i])
                        IN  /\ other.score = Res.sectionScores[Sections[i].name]
                            /\ other.missingKeywords = missing
                            /\ other.feedback.words = Res.feedback[i].words

\* witness of C10: a present section that misses a keyword although the keyword
\* is written both before its header and after the heading that ends it
C10_Witness ==
    /\ Evaluated
    /\ \E i \in DOMAIN Sections :
        /\ HasHeader(Doc, Sections[i])
        /\ BodyStart(Doc, Sections[i]) > 1
        /\ BodyEnd(Doc, Sections[i]) < Len(Doc)
        /\ \E j \in DOMAIN Sections[i].requiredKeywords :
            /\ Occurs(SubSeq(Doc, 1, BodyStart(Doc, Sections[i]) - 1),
                      Sections[i].requiredKeywords[j])
            /\ Occurs(SubSeq(Doc, BodyEnd(Doc, Sections[i]) + 1, Len(Doc)),
                      Sections[i].requiredKeywords[j])
            /\ j \notin FoundKeywords(Body(Doc, Sections[i]), Sections[i])
            /\ \E m \in DOMAIN Res.feedback[i].missing :
                Res.feedback[i].missing[m] = Sections[i].requiredKeywords[j]

Errors == {console[i] : i \in {j \in DOMAIN console : console[j].stream = "error"}}
ErrorKinds == {e.kind : e \in Errors}
Supported == {"github", "bitbucket"}

\* C5: once the fetch has failed or the source has been found unsupported, the
\* error is logged, no further fetch is made, no document is evaluated, no
\* report is written or echoed, and the run has ended with its promise resolved.
C5_FailureEndsRunWithoutOutput ==
    /\ (pc # "start" /\ source \notin Supported) => "unsupported" \in ErrorKinds
    /\ (ErrorKinds \cap {"fetch", "unsupported"} # {})
        => /\ pc = "done"
           /\ promise = "resolved"
           /\ Len(console) = 1
           /\ fetches = (IF "fetch" \in ErrorKinds THEN 1 ELSE 0)
           /\ content = <<>>
           /\ result = <<>>
           /\ file = <<>>
    /\ promise # "rejected"

\* witness of C5: a run that ended by a failed fetch
C5_Witness ==
    /\ "fetch" \in ErrorKinds
    /\ pc = "done"
    /\ promise = "resolved"
    /\ fetches = 1

\* C6: every error a run ends in is a fetch error or the unsupported-source
\* error.
C6_TwoErrorKinds == ErrorKinds \subseteq {"fetch", "unsupported"}

\* C6 as amended: before the document is evaluated a run ends in one of three
\* errors: the fetch error, the unsupported-source error, and the error that
\* Bitbucket needs a username, raised exactly when the source is "bitbucket"
\* and the username is empty; after it, only writing the report can fail.
C6_ThreeErrorKinds ==
    /\ ErrorKinds \subseteq {"fetch", "unsupported", "username", "write"}
    /\ ~Evaluated => ErrorKinds \subseteq {"fetch", "unsupported", "username"}
    /\ Evaluated => ErrorKinds \subseteq {"write"}
    /\ pc # "start" =>
        /\ ("username" \in ErrorKinds) <=> (source = "bitbucket" /\ username = "")
        /\ ("unsupported" \in ErrorKinds) <=> (source \notin Supported)
    /\ "fetch" \in ErrorKinds => fetches = 1
    /\ Cardinality(Errors) <= 1

\* witness of C6: a run that ended because Bitbucket was given no username
C6_Witness ==
    /\ pc = "done"
    /\ source = "bitbucket"
    /\ username = ""
    /\ ErrorKinds = {"username"}
    /\ fetches = 0

====
